---- MODULE Spec2Model ----
(***************************************************************************)
(* shift-io: bit-banged chains of 8-bit shift registers.                   *)
(*   input::Chain   (PISO, e.g. 74HC165)   src/src/input.rs                *)
(*   output::Chain  (SIPO, e.g. 74HC595)   src/src/output.rs               *)
(*   inout::DualChain (both, shared clock and latch)  src/src/inout.rs     *)
(* One chain is modelled at a time; its type and CHAIN_LENGTH are fixed    *)
(* at construction.  update() runs to completion (it holds &mut self), so  *)
(* it is one action; every GPIO operation it performs is logged in `wire`  *)
(* together with the line levels and the outputs of the simulated SIPO     *)
(* chips after that operation.                                             *)
(***************************************************************************)
EXTENDS Integers, Sequences, FiniteSets

VARIABLES
    variant,          \* "input" | "output" | "dual": which chain type this is
    CHAIN_LENGTH,     \* const generic CHAIN_LENGTH
    data_in_buffer,   \* input::Chain.data_buffer / DualChain.data_in_buffer
    data_out_buffer,  \* output::Chain.data_buffer / DualChain.data_out_buffer
    clock_pin,        \* level of the clock line
    latch_pin,        \* level of the latch line
    data_out_pin,     \* level of the data-out line
    data_in_pin,      \* level of the data-in line (driven by the chips)
    sr,               \* simulated SIPO chips: shift register, bit p = stage p
    q,                \* simulated SIPO chips: output drivers, bit p = output p
    wire,             \* GPIO operations of the most recent update(), in order
    gpio_ops,         \* number of GPIO operations performed since construction
    handles,          \* AddressedPin handles constructed on the chain
    intent,           \* pins whose most recent successful set was to high
    ret,              \* the last accessor call and what it returned
    panicked,         \* the program has panicked
    calls,            \* accessor calls made so far
    updates,          \* update() calls made so far
    highs,            \* data-in samples that read high so far
    faulted           \* a GPIO operation has reported an error

vars == <<variant, CHAIN_LENGTH, data_in_buffer, data_out_buffer, clock_pin,
          latch_pin, data_out_pin, data_in_pin, sr, q, wire, gpio_ops, handles,
          intent, ret, panicked, calls, updates, highs, faulted>>

----------------------------------------------------------------------------
(* Bounds of the model. *)

\* largest CHAIN_LENGTH instantiated
MaxLen == 2
\* inputs per run: accessor calls (get_input, set_output, len, Pin::new, pin
\* operations) plus data-in samples that read high
MaxInputs == 2
\* update() calls per run
MaxUpdates == 2
\* pins beyond the end of the chain that callers try
MaxOver == 1
\* whole-byte pattern writes per run (PatternSpec)
MaxPatterns == 1

(* Program constants. *)

\* bits per chip: `pin / 8`, `pin % 8`, `CHAIN_LENGTH * 8`
BITS == 8
\* highest bit of a byte: `1 << (7 - bit)`, `for bit in 0..=7`
MSB == 7

Variants == {"input", "output", "dual"}

HasInput == variant \in {"input", "dual"}
HasOutput == variant \in {"output", "dual"}

----------------------------------------------------------------------------
(* u8 bit operations, by their arithmetic meaning. *)

\* (v & (1 << b)) != 0
BitTest(v, b) == (v \div (2 ^ b)) % 2 = 1

\* `v = 1 << b`: assigns the byte instead of or-ing the bit in
BitAssign(v, b) == 2 ^ b

\* v | (1 << b)
BitOr(v, b) == IF BitTest(v, b) THEN v ELSE v + 2 ^ b

\* v & !(1 << b)
BitClear(v, b) == IF BitTest(v, b) THEN v - 2 ^ b ELSE v

\* a buffer constructed with every bit set
FilledBuffer(n) == [i \in 0 .. n - 1 |-> 255]

\* [0; CHAIN_LENGTH]
ZeroBuffer(n) == [i \in 0 .. n - 1 |-> 0]

----------------------------------------------------------------------------
(* Buffered accessors.  Each is the function the code computes; `panic`    *)
(* is set where the Rust code would panic (array index out of bounds, or   *)
(* the usize subtraction of set_output_unchecked underflowing).            *)

\* len(): the chain length
len == CHAIN_LENGTH

\* is_empty(): len() == 0
is_empty == len = 0

\* get_input_unchecked that reads the data-in line instead of the buffer
get_input_unchecked_live(buf, pin) ==
    LET index == pin \div BITS
    IN  IF index \in DOMAIN buf
        THEN [panic |-> FALSE, val |-> data_in_pin]
        ELSE [panic |-> TRUE, val |-> FALSE]

\* input::Chain::get_input_unchecked / DualChain::get_input_unchecked
get_input_unchecked(buf, pin) ==
    LET index == pin \div BITS
        bit == pin % BITS
    IN  IF index \in DOMAIN buf
        THEN [panic |-> FALSE, val |-> BitTest(buf[index], bit)]
        ELSE [panic |-> TRUE, val |-> FALSE]

\* get_input whose range check is `>` instead of `>=`
get_input_off_by_one(buf, pin) ==
    IF pin > CHAIN_LENGTH * BITS
    THEN [res |-> "Err", panic |-> FALSE, val |-> FALSE]
    ELSE LET r == get_input_unchecked(buf, pin)
         IN  [res |-> "Ok", panic |-> r.panic, val |-> r.val]

\* input::Chain::get_input / DualChain::get_input
get_input(buf, pin) ==
    IF pin >= CHAIN_LENGTH * BITS
    THEN [res |-> "Err", panic |-> FALSE, val |-> FALSE]
    ELSE LET r == get_input_unchecked(buf, pin)
         IN  [res |-> "Ok", panic |-> r.panic, val |-> r.val]

\* set_output_unchecked without the reversal of the chip order
set_output_unchecked_forward(buf, pin, state) ==
    LET index == pin \div BITS
        bit == pin % BITS
    IN  IF index \in DOMAIN buf
        THEN [panic |-> FALSE,
              buf |-> [buf EXCEPT ![index] =
                          IF state THEN BitOr(@, bit) ELSE BitClear(@, bit)]]
        ELSE [panic |-> TRUE, buf |-> buf]

\* output::Chain::set_output_unchecked / DualChain::set_output_unchecked
set_output_unchecked(buf, pin, state) ==
    LET index == CHAIN_LENGTH - (pin \div BITS) - 1
        bit == pin % BITS
    IN  IF index \in DOMAIN buf
        THEN [panic |-> FALSE,
              buf |-> [buf EXCEPT ![index] =
                          IF state THEN BitOr(@, bit) ELSE BitClear(@, bit)]]
        ELSE [panic |-> TRUE, buf |-> buf]

\* set_output that numbers the bits of a byte from the top
set_output_msb(buf, pin, state) ==
    IF pin >= CHAIN_LENGTH * BITS
    THEN [res |-> "Err", panic |-> FALSE, buf |-> buf]
    ELSE LET r == set_output_unchecked(buf, BITS * (pin \div BITS) + (MSB - (pin % BITS)),
                                       state)
         IN  [res |-> "Ok", panic |-> r.panic, buf |-> r.buf]

\* output::Chain::set_output / DualChain::set_output
set_output(buf, pin, state) ==
    IF pin >= CHAIN_LENGTH * BITS
    THEN [res |-> "Err", panic |-> FALSE, buf |-> buf]
    ELSE LET r == set_output_unchecked(buf, pin, state)
         IN  [res |-> "Ok", panic |-> r.panic, buf |-> r.buf]

\* Pin::new whose range check is `>` instead of `>=`
pin_new_off_by_one(pin) == IF pin > len * BITS THEN "Err" ELSE "Ok"

\* input::Pin::new / output::Pin::new: the range check on the handle's pin
pin_new(pin) == IF pin >= len * BITS THEN "Err" ELSE "Ok"

\* the buffered output state of a logical pin: the bit set_output_unchecked
\* addresses for it
OutState(buf, pin) ==
    BitTest(buf[CHAIN_LENGTH - (pin \div BITS) - 1], pin % BITS)

\* the buffered output states of all pins as one number, bit p = pin p
RECURSIVE OutStatesFrom(_, _)
OutStatesFrom(buf, pin) ==
    IF pin >= CHAIN_LENGTH * BITS THEN 0
    ELSE (IF OutState(buf, pin) THEN 2 ^ pin ELSE 0) + OutStatesFrom(buf, pin + 1)

OutStates(buf) == OutStatesFrom(buf, 0)

----------------------------------------------------------------------------
(* The wire.  A GPIO write sets the level of its line; the simulated SIPO  *)
(* chips (74HC595) shift the data-out level into stage 0 on a rising edge  *)
(* of the clock and copy the shift register to the output drivers on a     *)
(* rising edge of the latch.  Stage/output p belongs to chip p / 8, bit    *)
(* p % 8; stage 8n-1 is the far end of the chain.                          *)

\* the shift register after one clock rising edge with `level` on data-out
SipoShift(reg, level) ==
    (2 * reg + (IF level THEN 1 ELSE 0)) % (2 ^ (CHAIN_LENGTH * BITS))

\* the chips' reaction to the lines going from m's levels to (c, l)
SipoStep(m, c, l) ==
    IF ~HasOutput THEN m
    ELSE [m EXCEPT !.sr = IF c /\ ~m.clock THEN SipoShift(@, m.data_out) ELSE @,
                   !.q = IF l /\ ~m.latch THEN m.sr ELSE @]

\* one entry of the GPIO log: the operation and the wire right after it
Event(m, line, level) ==
    [line |-> line, level |-> level, clock |-> m.clock, latch |-> m.latch,
     data_out |-> m.data_out, q |-> m.q]

\* whether the GPIO operation about to be performed reports an error
OpFails(m) == Len(m.wire) \in m.errs

\* OutputPin::set_high / set_low on a line, its Result discarded by `.ok()`.
\* A write that reports an error drives the line or not (m.applied).
GpioWrite(m, line, level) ==
    LET driven == ~OpFails(m) \/ m.applied
        c == IF line = "clock" /\ driven THEN level ELSE m.clock
        l == IF line = "latch" /\ driven THEN level ELSE m.latch
        d == IF line = "data_out" /\ driven THEN level ELSE m.data_out
        m1 == [SipoStep(m, c, l) EXCEPT !.clock = c, !.latch = l, !.data_out = d]
    IN  [m1 EXCEPT !.wire = Append(@, Event(m1, line, level))]

\* the level the data-in line has at the sample about to be taken
SampleLevel(m) == m.k \in m.highs

\* InputPin::is_high() followed by `.ok().unwrap()`: the level read, or a
\* panic when the read reports an error
GpioRead(m) ==
    IF OpFails(m) THEN [m EXCEPT !.panicked = TRUE]
    ELSE LET m1 == [m EXCEPT !.data_in = SampleLevel(m), !.k = @ + 1]
         IN  [m1 EXCEPT !.wire = Append(@, Event(m1, "data_in", m1.data_in))]

\* the machine state update() starts from: the chain's fields, the wire, and
\* what the environment will do during this update (levels of the data-in
\* line per sample, failing GPIO operations)
StartUpdate(hs, errs, applied) ==
    [clock |-> clock_pin, latch |-> latch_pin, data_out |-> data_out_pin,
     data_in |-> data_in_pin, sr |-> sr, q |-> q, wire |-> <<>>,
     data_in_buffer |-> data_in_buffer, data_out_buffer |-> data_out_buffer,
     value |-> 0, out_value |-> 0, k |-> 0, panicked |-> FALSE,
     highs |-> hs, errs |-> errs, applied |-> applied]

----------------------------------------------------------------------------
(* output::Chain::update, src/src/output.rs 60-80 *)

\* the bit loop body writing the data line after the clock went high
OutputBitDataLate(m, data, bit) ==
    LET m1 == GpioWrite(GpioWrite(m, "clock", FALSE), "clock", TRUE)
        state == BitTest(data, MSB - bit)
    IN  GpioWrite(m1, "data_out", state)

\* the bit loop body shifting a byte out LSB-first
OutputBitLsbFirst(m, data, bit) ==
    LET m1 == GpioWrite(m, "clock", FALSE)
        state == BitTest(data, bit)
        m2 == GpioWrite(m1, "data_out", state)
    IN  GpioWrite(m2, "clock", TRUE)

\* body of `for bit in 0..=7`
OutputBit(m, data, bit) ==
    LET m1 == GpioWrite(m, "clock", FALSE)
        state == BitTest(data, MSB - bit)
        m2 == GpioWrite(m1, "data_out", state)
    IN  GpioWrite(m2, "clock", TRUE)

RECURSIVE OutputBits(_, _, _)
\* `for bit in 0..=7`
OutputBits(m, data, bit) ==
    IF bit > MSB \/ m.panicked THEN m
    ELSE OutputBits(OutputBit(m, data, bit), data, bit + 1)

RECURSIVE OutputBytes(_, _)
\* `for data in self.data_buffer`
OutputBytes(m, index) ==
    IF index >= CHAIN_LENGTH \/ m.panicked THEN m
    ELSE OutputBytes(OutputBits(m, m.data_out_buffer[index], 0), index + 1)

\* update() that raises the latch before shifting instead of after
OutputUpdateLatchEarly(m) ==
    LET m1 == GpioWrite(m, "latch", FALSE)
        m2 == GpioWrite(m1, "latch", TRUE)
    IN  OutputBytes(m2, 0)

\* update() that clears the buffer once it is shifted out
OutputUpdateClearing(m) ==
    LET m1 == GpioWrite(m, "latch", FALSE)
        m2 == OutputBytes(m1, 0)
        m3 == GpioWrite(m2, "latch", TRUE)
    IN  [m3 EXCEPT !.data_out_buffer = ZeroBuffer(CHAIN_LENGTH)]

OutputUpdate(m) ==
    LET m1 == GpioWrite(m, "latch", FALSE)
        m2 == OutputBytes(m1, 0)
    IN  GpioWrite(m2, "latch", TRUE)

----------------------------------------------------------------------------
(* input::Chain::update, src/src/input.rs 60-82 *)

\* the bit loop body storing the first sample of a byte in bit 0
InputBitLsbFirst(m, bit) ==
    LET m1 == GpioWrite(m, "clock", FALSE)
        m2 == GpioRead(m1)
    IN  IF m2.panicked THEN m2
        ELSE LET m3 == [m2 EXCEPT !.value = IF m2.data_in
                                             THEN BitOr(@, bit)
                                             ELSE BitClear(@, bit)]
             IN  GpioWrite(m3, "clock", TRUE)

\* the bit loop body sampling the data line after the clock went high
InputBitSampleLate(m, bit) ==
    LET m1 == GpioWrite(GpioWrite(m, "clock", FALSE), "clock", TRUE)
        m2 == GpioRead(m1)
    IN  IF m2.panicked THEN m2
        ELSE [m2 EXCEPT !.value = IF m2.data_in
                                   THEN BitOr(@, MSB - bit)
                                   ELSE BitClear(@, MSB - bit)]

\* body of `for bit in 0..=7`
InputBit(m, bit) ==
    LET m1 == GpioWrite(m, "clock", FALSE)
        m2 == GpioRead(m1)
    IN  IF m2.panicked THEN m2
        ELSE LET m3 == [m2 EXCEPT !.value = IF m2.data_in
                                             THEN BitOr(@, MSB - bit)
                                             ELSE BitClear(@, MSB - bit)]
             IN  GpioWrite(m3, "clock", TRUE)

RECURSIVE InputBits(_, _)
\* `for bit in 0..=7`
InputBits(m, bit) ==
    IF bit > MSB \/ m.panicked THEN m
    ELSE InputBits(InputBit(m, bit), bit + 1)

\* body of `for data in self.data_buffer.iter_mut()`
InputByte(m, index) ==
    LET m1 == InputBits([m EXCEPT !.value = 0], 0)
    IN  IF m1.panicked THEN m1
        ELSE [m1 EXCEPT !.data_in_buffer[index] = m1.value]

RECURSIVE InputBytes(_, _)
\* `for data in self.data_buffer.iter_mut()`
InputBytes(m, index) ==
    IF index >= CHAIN_LENGTH \/ m.panicked THEN m
    ELSE InputBytes(InputByte(m, index), index + 1)

InputUpdate(m) ==
    LET m1 == GpioWrite(m, "latch", TRUE)
        m2 == InputBytes(m1, 0)
    IN  IF m2.panicked THEN m2 ELSE GpioWrite(m2, "latch", FALSE)

----------------------------------------------------------------------------
(* inout::DualChain::update, src/src/inout.rs 67-105 *)

\* the bit loop body giving input and output a clock pulse each
DualBitTwoPulses(m, bit) ==
    LET m1 == GpioWrite(m, "clock", FALSE)
        m2 == GpioRead(m1)
    IN  IF m2.panicked THEN m2
        ELSE LET m3 == [m2 EXCEPT !.value = IF m2.data_in
                                             THEN BitOr(@, MSB - bit)
                                             ELSE BitClear(@, MSB - bit)]
                 m4 == GpioWrite(GpioWrite(m3, "clock", TRUE), "clock", FALSE)
                 out_state == BitTest(m4.out_value, MSB - bit)
                 m5 == GpioWrite(m4, "data_out", out_state)
             IN  GpioWrite(m5, "clock", TRUE)

\* body of `for bit in 0..=7`
DualBit(m, bit) ==
    LET m1 == GpioWrite(m, "clock", FALSE)
        m2 == GpioRead(m1)
    IN  IF m2.panicked THEN m2
        ELSE LET m3 == [m2 EXCEPT !.value = IF m2.data_in
                                             THEN BitOr(@, MSB - bit)
                                             ELSE BitClear(@, MSB - bit)]
                 out_state == BitTest(m3.out_value, MSB - bit)
                 m4 == GpioWrite(m3, "data_out", out_state)
             IN  GpioWrite(m4, "clock", TRUE)

RECURSIVE DualBits(_, _)
\* `for bit in 0..=7`
DualBits(m, bit) ==
    IF bit > MSB \/ m.panicked THEN m
    ELSE DualBits(DualBit(m, bit), bit + 1)

\* the byte loop body taking the output bytes in ascending chip order
DualByteReversed(m, chain_index) ==
    LET m0 == [m EXCEPT !.value = 0,
                        !.out_value =
                            m.data_out_buffer[CHAIN_LENGTH - 1 - chain_index]]
        m1 == DualBits(m0, 0)
    IN  IF m1.panicked THEN m1
        ELSE [m1 EXCEPT !.data_in_buffer[chain_index] = m1.value]

\* body of `for chain_index in 0..CHAIN_LENGTH`
DualByte(m, chain_index) ==
    LET m0 == [m EXCEPT !.value = 0,
                        !.out_value = m.data_out_buffer[chain_index]]
        m1 == DualBits(m0, 0)
    IN  IF m1.panicked THEN m1
        ELSE [m1 EXCEPT !.data_in_buffer[chain_index] = m1.value]

RECURSIVE DualBytes(_, _)
\* `for chain_index in 0..CHAIN_LENGTH`
DualBytes(m, chain_index) ==
    IF chain_index >= CHAIN_LENGTH \/ m.panicked THEN m
    ELSE DualBytes(DualByte(m, chain_index), chain_index + 1)

\* update() without the additional latch cycle
DualNoExtraLatch(m) == m

\* the additional latch cycle, lines 101-104
DualExtraLatch(m) ==
    GpioWrite(GpioWrite(m, "latch", TRUE), "latch", FALSE)

\* update() that lowers the latch for the shift, as output::Chain does
DualUpdateLatchLow(m) ==
    LET m1 == GpioWrite(m, "latch", FALSE)
        m2 == DualBytes(m1, 0)
    IN  IF m2.panicked THEN m2
        ELSE DualExtraLatch(GpioWrite(m2, "latch", FALSE))

DualUpdate(m) ==
    LET m1 == GpioWrite(m, "latch", TRUE)
        m2 == DualBytes(m1, 0)
    IN  IF m2.panicked THEN m2
        ELSE DualExtraLatch(GpioWrite(m2, "latch", FALSE))

----------------------------------------------------------------------------
\* update() of the chain type at hand, run from machine state m to its end
RunUpdate(m) ==
    CASE variant = "input" -> InputUpdate(m)
      [] variant = "output" -> OutputUpdate(m)
      [] variant = "dual" -> DualUpdate(m)

----------------------------------------------------------------------------
(* State machine *)

\* `ret` before the first accessor call
NoRet == [op |-> "none", res |-> "none", val |-> FALSE]

\* Chain::new / DualChain::new: zeroed buffers.  The clock and data lines
\* start low and the latch line at either level; the chips start cleared.
\* (Every update() after the first starts with the clock high.)
Init ==
    /\ variant \in Variants
    /\ CHAIN_LENGTH \in 0 .. MaxLen
    /\ data_in_buffer = ZeroBuffer(CHAIN_LENGTH)
    /\ data_out_buffer = ZeroBuffer(CHAIN_LENGTH)
    /\ clock_pin = FALSE
    /\ latch_pin \in BOOLEAN
    /\ data_out_pin = FALSE
    /\ data_in_pin = FALSE
    /\ sr = 0
    /\ q = 0
    /\ wire = <<>>
    /\ gpio_ops = 0
    /\ handles = {}
    /\ intent = {}
    /\ ret = NoRet
    /\ panicked = FALSE
    /\ calls = 0
    /\ updates = 0
    /\ highs = 0
    /\ faulted = FALSE

\* the pins a caller passes: every pin of the chain and MaxOver beyond it
Pins == 0 .. CHAIN_LENGTH * BITS + MaxOver - 1

RECURSIVE SubsetsUpTo(_, _)
\* the subsets of S with at most n elements
SubsetsUpTo(S, n) ==
    IF n <= 0 THEN {{}}
    ELSE LET smaller == SubsetsUpTo(S, n - 1)
         IN  smaller \cup {T \cup {x} : T \in smaller, x \in S}

\* the clock pulses of one update() at which the data-in line may read high
HighChoices ==
    IF HasInput
    THEN SubsetsUpTo(0 .. CHAIN_LENGTH * BITS - 1, MaxInputs - calls - highs)
    ELSE {{}}

\* the chain and the wire take the final state m of an update() run
Commit(m) ==
    /\ data_in_buffer' = m.data_in_buffer
    /\ data_out_buffer' = m.data_out_buffer
    /\ clock_pin' = m.clock
    /\ latch_pin' = m.latch
    /\ data_out_pin' = m.data_out
    /\ data_in_pin' = m.data_in
    /\ sr' = m.sr
    /\ q' = m.q
    /\ wire' = m.wire
    /\ gpio_ops' = gpio_ops + Len(m.wire)
    /\ panicked' = m.panicked
    /\ highs' = highs + Cardinality(m.highs \cap (0 .. m.k - 1))
    /\ faulted' = (faulted \/ m.errs # {})
    /\ updates' = updates + 1
    /\ UNCHANGED <<variant, CHAIN_LENGTH, handles, intent, ret, calls>>

\* update() with working GPIO pins
Update ==
    /\ ~panicked
    /\ updates < MaxUpdates
    /\ \E hs \in HighChoices : Commit(RunUpdate(StartUpdate(hs, {}, TRUE)))

\* the chips change the level of the data-in line
EnvDataIn ==
    /\ ~panicked
    /\ HasInput
    /\ data_in_pin' = ~data_in_pin
    /\ UNCHANGED <<variant, CHAIN_LENGTH, data_in_buffer, data_out_buffer,
                   clock_pin, latch_pin, data_out_pin, sr, q, wire, gpio_ops,
                   handles, intent, ret, panicked, calls, updates, highs,
                   faulted>>

\* what an accessor call leaves alone
CallFrame ==
    /\ calls' = calls + 1
    /\ UNCHANGED <<variant, CHAIN_LENGTH, clock_pin, latch_pin, data_out_pin,
                   data_in_pin, sr, q, wire, gpio_ops, updates, highs, faulted>>

\* `intent` after a successful set of `pin` to `state`
Intend(pin, state) == IF state THEN intent \cup {pin} ELSE intent \ {pin}

CanCall == ~panicked /\ calls + highs < MaxInputs

GetInputAt(pin) ==
    /\ CanCall /\ HasInput
    /\ LET r == get_input(data_in_buffer, pin)
       IN  /\ ret' = [op |-> "get_input", res |-> r.res, val |-> r.val]
           /\ panicked' = r.panic
    /\ CallFrame
    /\ UNCHANGED <<data_in_buffer, data_out_buffer, handles, intent>>

GetInput == \E pin \in Pins : GetInputAt(pin)

GetInputUncheckedAt(pin) ==
    /\ CanCall /\ HasInput
    /\ LET r == get_input_unchecked(data_in_buffer, pin)
       IN  /\ ret' = [op |-> "get_input_unchecked",
                      res |-> IF r.panic THEN "panic" ELSE "Ok", val |-> r.val]
           /\ panicked' = r.panic
    /\ CallFrame
    /\ UNCHANGED <<data_in_buffer, data_out_buffer, handles, intent>>

GetInputUnchecked == \E pin \in Pins : GetInputUncheckedAt(pin)

SetOutputAt(pin, state) ==
    /\ CanCall /\ HasOutput
    /\ LET r == set_output(data_out_buffer, pin, state)
       IN  /\ data_out_buffer' = r.buf
           /\ intent' = IF r.res = "Ok" /\ ~r.panic
                         THEN Intend(pin, state) ELSE intent
           /\ ret' = [op |-> "set_output", res |-> r.res, val |-> FALSE]
           /\ panicked' = r.panic
    /\ CallFrame
    /\ UNCHANGED <<data_in_buffer, handles>>

SetOutput == \E pin \in Pins, state \in BOOLEAN : SetOutputAt(pin, state)

\* set_output_unchecked that also drives the data-out line at once
SetOutputWriteThrough(pin, state) ==
    /\ CanCall /\ HasOutput
    /\ LET r == set_output_unchecked(data_out_buffer, pin, state)
       IN  /\ data_out_buffer' = r.buf
           /\ intent' = IF r.panic THEN intent ELSE Intend(pin, state)
           /\ ret' = [op |-> "set_output_unchecked",
                      res |-> IF r.panic THEN "panic" ELSE "Ok", val |-> FALSE]
           /\ panicked' = r.panic
    /\ calls' = calls + 1
    /\ data_out_pin' = state
    /\ gpio_ops' = gpio_ops + 1
    /\ UNCHANGED <<variant, CHAIN_LENGTH, clock_pin, latch_pin, data_in_pin, sr, q,
                   wire, updates, highs, faulted, data_in_buffer, handles>>

SetOutputUncheckedAt(pin, state) ==
    /\ CanCall /\ HasOutput
    /\ LET r == set_output_unchecked(data_out_buffer, pin, state)
       IN  /\ data_out_buffer' = r.buf
           /\ intent' = IF r.panic THEN intent ELSE Intend(pin, state)
           /\ ret' = [op |-> "set_output_unchecked",
                      res |-> IF r.panic THEN "panic" ELSE "Ok", val |-> FALSE]
           /\ panicked' = r.panic
    /\ CallFrame
    /\ UNCHANGED <<data_in_buffer, handles>>

SetOutputUnchecked ==
    \E pin \in Pins, state \in BOOLEAN : SetOutputUncheckedAt(pin, state)

\* len() and is_empty()
Length ==
    /\ CanCall
    /\ ret' = [op |-> "len", res |-> "Ok", val |-> is_empty]
    /\ CallFrame
    /\ UNCHANGED <<data_in_buffer, data_out_buffer, handles, intent, panicked>>

----------------------------------------------------------------------------
(* AddressedPin handles: input::Pin (src/src/input.rs 125-162) and         *)
(* output::Pin (src/src/output.rs 129-168).  A handle is its kind and pin. *)

\* input::Pin::new(chain, pin)
InputPinNewAt(pin) ==
    /\ HasInput
    /\ ret' = [op |-> "input_pin_new", res |-> pin_new(pin), val |-> FALSE]
    /\ handles' = IF pin_new(pin) = "Ok"
                  THEN handles \cup {[kind |-> "input", pin |-> pin]}
                  ELSE handles
    /\ CallFrame
    /\ UNCHANGED <<data_in_buffer, data_out_buffer, intent, panicked>>

\* input::Pin::new
InputPinNew == \E pin \in Pins : CanCall /\ InputPinNewAt(pin)

\* output::Pin::new(chain, pin)
OutputPinNewAt(pin) ==
    /\ HasOutput
    /\ ret' = [op |-> "output_pin_new", res |-> pin_new(pin), val |-> FALSE]
    /\ handles' = IF pin_new(pin) = "Ok"
                  THEN handles \cup {[kind |-> "output", pin |-> pin]}
                  ELSE handles
    /\ CallFrame
    /\ UNCHANGED <<data_in_buffer, data_out_buffer, intent, panicked>>

\* output::Pin::new
OutputPinNew == \E pin \in Pins : CanCall /\ OutputPinNewAt(pin)

\* InputPin::is_high for input::Pin
PinIsHighAt(h) ==
    /\ h.kind = "input"
    /\ LET r == get_input_unchecked(data_in_buffer, h.pin)
       IN  /\ ret' = [op |-> "is_high",
                      res |-> IF r.panic THEN "panic" ELSE "Ok", val |-> r.val]
           /\ panicked' = r.panic
    /\ CallFrame
    /\ UNCHANGED <<data_in_buffer, data_out_buffer, handles, intent>>

PinIsHigh == \E h \in handles : CanCall /\ PinIsHighAt(h)

\* is_low that returns the buffered level without negating it
PinIsLowNotNegated(h) ==
    /\ h.kind = "input"
    /\ LET r == get_input_unchecked(data_in_buffer, h.pin)
       IN  /\ ret' = [op |-> "is_low",
                      res |-> IF r.panic THEN "panic" ELSE "Ok", val |-> r.val]
           /\ panicked' = r.panic
    /\ CallFrame
    /\ UNCHANGED <<data_in_buffer, data_out_buffer, handles, intent>>

\* InputPin::is_low for input::Pin
PinIsLowAt(h) ==
    /\ h.kind = "input"
    /\ LET r == get_input_unchecked(data_in_buffer, h.pin)
       IN  /\ ret' = [op |-> "is_low",
                      res |-> IF r.panic THEN "panic" ELSE "Ok", val |-> ~r.val]
           /\ panicked' = r.panic
    /\ CallFrame
    /\ UNCHANGED <<data_in_buffer, data_out_buffer, handles, intent>>

PinIsLow == \E h \in handles : CanCall /\ PinIsLowAt(h)

\* OutputPin::set_low for output::Pin
PinSetLowAt(h) ==
    /\ h.kind = "output"
    /\ LET r == set_output_unchecked(data_out_buffer, h.pin, FALSE)
       IN  /\ data_out_buffer' = r.buf
           /\ intent' = IF r.panic THEN intent ELSE Intend(h.pin, FALSE)
           /\ ret' = [op |-> "set_low",
                      res |-> IF r.panic THEN "panic" ELSE "Ok", val |-> FALSE]
           /\ panicked' = r.panic
    /\ CallFrame
    /\ UNCHANGED <<data_in_buffer, handles>>

PinSetLow == \E h \in handles : CanCall /\ PinSetLowAt(h)

\* OutputPin::set_high for output::Pin
PinSetHighAt(h) ==
    /\ h.kind = "output"
    /\ LET r == set_output_unchecked(data_out_buffer, h.pin, TRUE)
       IN  /\ data_out_buffer' = r.buf
           /\ intent' = IF r.panic THEN intent ELSE Intend(h.pin, TRUE)
           /\ ret' = [op |-> "set_high",
                      res |-> IF r.panic THEN "panic" ELSE "Ok", val |-> FALSE]
           /\ panicked' = r.panic
    /\ CallFrame
    /\ UNCHANGED <<data_in_buffer, handles>>

PinSetHigh == \E h \in handles : CanCall /\ PinSetHighAt(h)

----------------------------------------------------------------------------
Next ==
    \/ Update
    \/ EnvDataIn
    \/ GetInput
    \/ GetInputUnchecked
    \/ SetOutput
    \/ SetOutputUnchecked
    \/ Length
    \/ InputPinNew
    \/ OutputPinNew
    \/ PinIsHigh
    \/ PinIsLow
    \/ PinSetLow
    \/ PinSetHigh

Spec == Init /\ [][Next]_vars

----------------------------------------------------------------------------
(* PatternSpec: a caller that writes whole byte patterns to one chip's     *)
(* output register with 8 sequential set_output calls, pin 8*chip + i :=   *)
(* bit i of the pattern, and calls update().                               *)

\* the byte patterns written
Patterns == {0, 1, 2, 4, 8, 16, 32, 64, 128, 90, 165, 255}

RECURSIVE WriteBits(_, _, _, _)
\* set_output(8*chip + i, bit i of pattern) for i = from .. 7, in order
WriteBits(buf, chip, pattern, from) ==
    IF from >= BITS THEN buf
    ELSE WriteBits(set_output(buf, chip * BITS + from, BitTest(pattern, from)).buf,
                   chip, pattern, from + 1)

\* the pins the 8 calls leave set high
PatternPins(chip, pattern) ==
    {chip * BITS + i : i \in {j \in 0 .. BITS - 1 : BitTest(pattern, j)}}

WritePattern ==
    \E chip \in 0 .. CHAIN_LENGTH - 1, pattern \in Patterns :
        /\ ~panicked /\ HasOutput
        /\ calls < BITS * MaxPatterns
        /\ data_out_buffer' = WriteBits(data_out_buffer, chip, pattern, 0)
        /\ intent' = (intent \ PatternPins(chip, 255)) \cup PatternPins(chip, pattern)
        /\ ret' = [op |-> "set_output", res |-> "Ok", val |-> FALSE]
        /\ calls' = calls + BITS
        /\ UNCHANGED <<variant, CHAIN_LENGTH, clock_pin, latch_pin, data_out_pin,
                       data_in_pin, sr, q, wire, gpio_ops, updates, highs,
                       faulted, data_in_buffer, handles, panicked>>

PatternNext == WritePattern \/ Update

PatternSpec == Init /\ [][PatternNext]_vars

----------------------------------------------------------------------------
(* FaultSpec: GPIO pins whose operations can report an error.  One         *)
(* operation of the first update() fails, and at most one of its samples   *)
(* reads high.                                                             *)

\* the number of GPIO operations of one update()
NumOps ==
    IF variant = "dual" THEN 4 * BITS * CHAIN_LENGTH + 4
    ELSE 3 * BITS * CHAIN_LENGTH + 2

\* update() during which one GPIO operation reports an error
UpdateFaulty ==
    /\ ~panicked
    /\ ~faulted
    /\ updates < MaxUpdates
    /\ \E hs \in {h \in HighChoices : Cardinality(h) <= 1},
          e \in 0 .. NumOps - 1, applied \in BOOLEAN :
           Commit(RunUpdate(StartUpdate(hs, {e}, applied)))

FaultNext == UpdateFaulty \/ EnvDataIn

FaultSpec == Init /\ [][FaultNext]_vars

----------------------------------------------------------------------------
(* HandleSpec: a caller that works through AddressedPin handles only: it   *)
(* builds handles on the chain, uses them, and calls update(), during      *)
(* which the data-in line stays low or stays high.                         *)

\* handle constructions and operations per run
MaxHandleCalls == 4
\* handles built per run
MaxHandles == 2
\* update() calls per run
MaxHandleUpdates == 1

HandleCall == ~panicked /\ calls < MaxHandleCalls

HandleInputPinNew ==
    /\ HandleCall /\ Cardinality(handles) < MaxHandles
    /\ \E pin \in Pins : InputPinNewAt(pin)

HandleOutputPinNew ==
    /\ HandleCall /\ Cardinality(handles) < MaxHandles
    /\ \E pin \in Pins : OutputPinNewAt(pin)

HandleIsHigh == HandleCall /\ \E h \in handles : PinIsHighAt(h)

HandleIsLow == HandleCall /\ \E h \in handles : PinIsLowAt(h)

HandleSetLow == HandleCall /\ \E h \in handles : PinSetLowAt(h)

HandleSetHigh == HandleCall /\ \E h \in handles : PinSetHighAt(h)

HandleUpdate ==
    /\ ~panicked
    /\ updates < MaxHandleUpdates
    /\ \E hs \in (IF HasInput THEN {{}, 0 .. CHAIN_LENGTH * BITS - 1} ELSE {{}}) :
           Commit(RunUpdate(StartUpdate(hs, {}, TRUE)))

HandleNext ==
    \/ HandleInputPinNew
    \/ HandleOutputPinNew
    \/ HandleIsHigh
    \/ HandleIsLow
    \/ HandleSetLow
    \/ HandleSetHigh
    \/ HandleUpdate

HandleSpec == Init /\ [][HandleNext]_vars

----------------------------------------------------------------------------
(* Properties *)

RECURSIVE MaskOf(_)
\* the number whose bit p is set exactly for the pins p in S
MaskOf(S) ==
    IF S = {} THEN 0
    ELSE LET p == CHOOSE x \in S : TRUE IN 2 ^ p + MaskOf(S \ {p})

\* a step that is one whole update() call
UpdateStep == updates' = updates + 1

\* the positions of w from the first write to the clock to the last
ShiftPhase(w) ==
    LET clk == {i \in 1 .. Len(w) : w[i].line = "clock"}
    IN  {i \in 1 .. Len(w) : (\E a \in clk : a <= i) /\ (\E b \in clk : i <= b)}

\* the clock rising edges of w: a write of high to the clock while it is low
RisingEdges(w) ==
    {i \in 1 .. Len(w) : /\ w[i].line = "clock" /\ w[i].level
                         /\ i > 1 /\ ~w[i - 1].clock}

\* C1: on a fresh OutputChain or DualChain, set_output_unchecked(pin, true)
\* followed by update() leaves exactly the physical output `pin` (chip
\* pin / 8, bit pin % 8) high and every other output of the chain low.
C1_SinglePinReachesItsOutput ==
    [][(/\ HasOutput /\ UpdateStep /\ updates = 0 /\ calls = 1
        /\ ret.op = "set_output_unchecked" /\ ret.res = "Ok"
        /\ Cardinality(intent) = 1)
       => \E pin \in 0 .. CHAIN_LENGTH * BITS - 1 :
              intent = {pin} /\ q' = 2 ^ pin]_vars

\* the last pin of a two-chip DualChain was set and shifted out
C1_Witness ==
    /\ variant = "dual" /\ CHAIN_LENGTH = 2 /\ updates = 1 /\ calls = 1
    /\ ret.op = "set_output_unchecked" /\ intent = {15} /\ q = 2 ^ 15

\* C3: output::Chain::update lowers the latch first, does not write it
\* during the 8*N clock pulses and raises it once at the very end; the chip
\* outputs keep their value up to that last operation, at which they take
\* the whole buffer.
C3_OutputLatchOnlyAtEnd ==
    [][(variant = "output" /\ UpdateStep)
       => LET w == wire'
              n == Len(w)
          IN  /\ n = 3 * BITS * CHAIN_LENGTH + 2
              /\ w[1].line = "latch" /\ ~w[1].level
              /\ w[n].line = "latch" /\ w[n].level
              /\ \A i \in 2 .. n - 1 : w[i].line # "latch"
              /\ Cardinality(RisingEdges(w)) = BITS * CHAIN_LENGTH
              /\ \A i \in 1 .. n - 1 : w[i].q = q
              /\ w[n].q = OutStates(data_out_buffer)
              /\ q' = w[n].q
              /\ latch_pin']_vars

\* an OutputChain update changed the chip outputs of two chips
C3_Witness ==
    /\ variant = "output" /\ CHAIN_LENGTH = 2 /\ updates = 2
    /\ Len(wire) > 2 /\ wire[1].q # wire[Len(wire)].q
    /\ wire[1].q # 0 /\ q = wire[Len(wire)].q

\* C4: when DualChain::update returns, every chip output equals the state
\* buffered for its pin when update() was called, and during the update the
\* outputs only ever show the previous or the new set of pin states.
C4_DualNoLagNoMixture ==
    [][(variant = "dual" /\ UpdateStep)
       => /\ q' = MaskOf(intent)
          /\ q' = OutStates(data_out_buffer)
          /\ \A i \in 1 .. Len(wire') : wire'[i].q \in {q, q'}]_vars

\* a second DualChain update replaced one shown snapshot by another
C4_Witness ==
    /\ variant = "dual" /\ CHAIN_LENGTH = 2 /\ updates = 2
    /\ q = MaskOf(intent) /\ q # 0
    /\ wire[1].q # 0 /\ wire[1].q # q

\* C5 as stated: during the shifting phase of DualChain::update the latch
\* line is low.
C5_LatchLowWhileShifting ==
    (variant = "dual" /\ updates > 0)
    => \A i \in ShiftPhase(wire) : ~wire[i].latch

\* C5, amended: DualChain::update raises the latch first, the latch line is
\* high during the whole shifting phase and is not written in it, and after
\* the last clock pulse the latch is written low, high, low.
C5_LatchHighWhileShifting ==
    (variant = "dual" /\ updates > 0)
    => LET w == wire
           n == Len(w)
       IN  /\ n = 4 * BITS * CHAIN_LENGTH + 4
           /\ w[1].line = "latch" /\ w[1].level
           /\ ShiftPhase(w) = 2 .. n - 3
           /\ \A i \in ShiftPhase(w) : w[i].line # "latch" /\ w[i].latch
           /\ \A i \in {n - 2, n - 1, n} : w[i].line = "latch"
           /\ ~w[n - 2].level /\ w[n - 1].level /\ ~w[n].level
           /\ ~latch_pin

\* a DualChain of two chips has run an update
C5_Witness ==
    /\ variant = "dual" /\ CHAIN_LENGTH = 2 /\ updates > 0
    /\ ShiftPhase(wire) # {}

\* what get_input(pin) returns in the current state
GetResult(pin) == get_input(data_in_buffer, pin)

\* the levels of the data-out line at the clock rising edges of w, in order
DrivenBits(w) ==
    LET highs_ == SelectSeq(w, LAMBDA e : e.line = "clock" /\ e.level)
    IN  [k \in 1 .. Len(highs_) |-> highs_[k].data_out]

\* the bits of a byte, most significant first
MsbFirst(b) == [j \in 1 .. BITS |-> BitTest(b, BITS - j)]

\* C2: the checked accessors get_input and set_output return PinOutOfRange
\* for every pin >= N*8 (also for N = 0) without panicking and without
\* changing either buffer, and succeed for every pin < N*8.
C2_OutOfRangeIsAnError ==
    [][(calls' = calls + 1 /\ ret'.op \in {"get_input", "set_output"})
       => \A pin \in Pins :
              /\ GetInputAt(pin)
                   => IF pin >= CHAIN_LENGTH * BITS
                      THEN /\ ret'.res = "Err" /\ ~panicked'
                           /\ UNCHANGED <<data_in_buffer, data_out_buffer>>
                      ELSE ret'.res = "Ok" /\ ~panicked'
              /\ \A state \in BOOLEAN :
                     SetOutputAt(pin, state)
                       => IF pin >= CHAIN_LENGTH * BITS
                          THEN /\ ret'.res = "Err" /\ ~panicked'
                               /\ UNCHANGED <<data_in_buffer, data_out_buffer>>
                          ELSE ret'.res = "Ok" /\ ~panicked']_vars

\* a checked accessor of an empty chain returned the error
C2_Witness ==
    /\ variant = "input" /\ CHAIN_LENGTH = 0
    /\ ret.op = "get_input" /\ ret.res = "Err" /\ ~panicked

\* C6: at the k-th clock rising edge of update() (k = 0 .. 8N-1) the
\* data-out line carries the buffered state of pin 8N-1-k; after a byte
\* pattern was written to chip 0 of a fresh chain with 8 set_output calls
\* the last 8 bits driven are the pattern MSB-first, and for N = 1 they are
\* the whole sequence.
C6_SerialOrder ==
    [][(HasOutput /\ UpdateStep)
       => LET bits == DrivenBits(wire')
              n == CHAIN_LENGTH * BITS
          IN  /\ Len(bits) = n
              /\ Cardinality(RisingEdges(wire')) = n
              /\ \A k \in 0 .. n - 1 :
                     /\ bits[k + 1] = OutState(data_out_buffer, n - 1 - k)
                     /\ bits[k + 1] = (n - 1 - k \in intent)
              /\ \A b \in Patterns :
                     (calls = BITS /\ CHAIN_LENGTH >= 1 /\ intent = PatternPins(0, b))
                     => /\ SubSeq(bits, n - BITS + 1, n) = MsbFirst(b)
                        /\ (CHAIN_LENGTH = 1 => bits = MsbFirst(b))]_vars

\* 0xA5 was written to chip 0 of a two-chip chain and shifted out
C6_Witness ==
    /\ HasOutput /\ CHAIN_LENGTH = 2 /\ updates = 1 /\ calls = BITS
    /\ intent = PatternPins(0, 165)
    /\ SubSeq(DrivenBits(wire), 9, 16) = MsbFirst(165)

\* C7: the first set_output(pin, true) on an OutputChain sets exactly bit
\* pin % 8 of buffer byte N-1-pin/8; with N = 2, pins 0 and 15 high and all
\* others low, the buffer after update() is [0x80, 0x01].
C7_BufferLayout ==
    /\ \A pin \in 0 .. CHAIN_LENGTH * BITS - 1 :
           (/\ variant = "output" /\ calls = 1 /\ ret.op = "set_output"
            /\ intent = {pin})
           => data_out_buffer =
                  [i \in 0 .. CHAIN_LENGTH - 1 |->
                      IF i = CHAIN_LENGTH - 1 - pin \div BITS
                      THEN 2 ^ (pin % BITS) ELSE 0]
    /\ (variant = "output" /\ CHAIN_LENGTH = 2 /\ intent = {0, 15} /\ updates > 0)
       => data_out_buffer = [i \in 0 .. 1 |-> IF i = 0 THEN 128 ELSE 1]

\* pins 0 and 15 of a two-chip OutputChain were set high and shifted out
C7_Witness ==
    /\ variant = "output" /\ CHAIN_LENGTH = 2 /\ intent = {0, 15}
    /\ calls = 2 /\ ret.op = "set_output" /\ updates = 1 /\ q = 2 ^ 15 + 1

\* C8: what get_input(pin) returns for a valid pin changes only in
\* update(): neither a change of the data-in line nor any other accessor
\* call changes it.
C8_GetInputStableBetweenUpdates ==
    [][(HasInput /\ ~UpdateStep)
       => \A pin \in 0 .. CHAIN_LENGTH * BITS - 1 :
              GetResult(pin)' = GetResult(pin)]_vars

\* get_input returned the buffered low level while the data-in line, low at
\* the last sample of the update, was high
C8_Witness ==
    /\ HasInput /\ updates = 1 /\ highs = 0 /\ data_in_pin
    /\ ret.op = "get_input" /\ ret.res = "Ok" /\ ~ret.val

\* C9: only update() touches the wire: every other operation leaves the
\* clock, latch and data-out levels, the number of GPIO operations performed
\* and the simulated chip outputs unchanged.
C9_OnlyUpdateTouchesTheWire ==
    [][~UpdateStep
       => UNCHANGED <<clock_pin, latch_pin, data_out_pin, sr, q, wire,
                      gpio_ops>>]_vars

\* after an update a pin handle changed the buffer; the outputs still show
\* the old state
C9_Witness ==
    /\ updates = 1 /\ ret.op = "set_high" /\ intent # {}
    /\ q = 0 /\ OutStates(data_out_buffer) # 0 /\ gpio_ops = NumOps

\* C10: update() never aborts part-way: whatever GPIO operation reports an
\* error, it performs its whole sequence of GPIO operations and does not
\* panic.
C10_UpdateNeverAborts ==
    updates > 0 => (~panicked /\ Len(wire) = NumOps)

\* the operations of an AddressedPin
PinOps == {"is_high", "is_low", "set_low", "set_high"}

\* C11: input::Pin::new and output::Pin::new succeed exactly for
\* pin < N*8 and otherwise return PinOutOfRange and leave the chain (and the
\* set of handles) unchanged; every handle that exists addresses a pin of
\* the chain, and no operation of a handle fails or panics.
C11_PinNewValidatesRange ==
    [][(calls' = calls + 1 /\ ret'.op \in PinOps \cup {"input_pin_new", "output_pin_new"})
       => /\ \A pin \in Pins :
                 (InputPinNewAt(pin) \/ OutputPinNewAt(pin))
                 => /\ (ret'.res = "Ok") <=> (pin < CHAIN_LENGTH * BITS)
                    /\ ret'.res \in {"Ok", "Err"}
                    /\ ~panicked'
                    /\ UNCHANGED <<data_in_buffer, data_out_buffer>>
                    /\ IF pin < CHAIN_LENGTH * BITS
                       THEN \E h \in handles' : h.pin = pin /\ handles' = handles \cup {h}
                       ELSE handles' = handles
          /\ \A h \in handles' : h.pin < CHAIN_LENGTH * BITS
          /\ ret'.op \in PinOps => (ret'.res = "Ok" /\ ~panicked')]_vars

\* a handle on the last pin of a two-chip chain was built and used
C11_Witness ==
    /\ CHAIN_LENGTH = 2 /\ handles = {[kind |-> "output", pin |-> 15]}
    /\ ret.op = "set_high" /\ ret.res = "Ok" /\ intent = {15} /\ ~panicked

\* event e is the write of `level` to `line`
IsWrite(e, line, level) == e.line = line /\ e.level = level

\* w is: latch high; 8N times (clock low, sample data-in with the latch high
\* and the clock low, clock high); latch low
InputTraceShape(w) ==
    LET n == BITS * CHAIN_LENGTH
    IN  /\ Len(w) = 3 * n + 2
        /\ IsWrite(w[1], "latch", TRUE)
        /\ IsWrite(w[3 * n + 2], "latch", FALSE)
        /\ \A k \in 0 .. n - 1 :
               /\ IsWrite(w[3 * k + 2], "clock", FALSE)
               /\ w[3 * k + 3].line = "data_in"
               /\ w[3 * k + 3].latch /\ ~w[3 * k + 3].clock
               /\ IsWrite(w[3 * k + 4], "clock", TRUE)
        /\ Cardinality({i \in 1 .. Len(w) : w[i].line = "data_in"}) = n

\* C12 as stated: the trace of InputChain.update() is latch high, 8N times
\* (clock low, sample, clock high), latch low, and update() ends with clock
\* high and latch low.
C12_InputTraceEndsClockHigh ==
    [][(variant = "input" /\ UpdateStep)
       => /\ InputTraceShape(wire')
          /\ clock_pin' /\ ~latch_pin']_vars

\* C12: the trace of InputChain.update() is latch high, 8N times (clock low,
\* sample with latch high and clock low, clock high), latch low; update()
\* ends with latch low, and with clock high when N >= 1; for N = 0 it does
\* not touch the clock line.
C12_InputTrace ==
    [][(variant = "input" /\ UpdateStep)
       => /\ InputTraceShape(wire')
          /\ ~latch_pin'
          /\ IF CHAIN_LENGTH >= 1 THEN clock_pin' ELSE clock_pin' = clock_pin]_vars

\* an empty InputChain was updated and the clock line is still low
C12_Witness ==
    /\ variant = "input" /\ CHAIN_LENGTH = 0 /\ updates = 1
    /\ Len(wire) = 2 /\ ~clock_pin /\ ~latch_pin

\* the data-in levels sampled in w, in order
Samples(w) ==
    LET reads == SelectSeq(w, LAMBDA e : e.line = "data_in")
    IN  [k \in 1 .. Len(reads) |-> reads[k].level]

\* C13: after update() of an InputChain or DualChain, get_input(pin) is, for
\* every pin < N*8, the level sampled at clock pulse 8*(pin/8) + (7 - pin%8)
\* (0-based) of that update, whatever the input buffer held before.
C13_InputMapping ==
    [][(HasInput /\ UpdateStep)
       => LET smp == Samples(wire')
          IN  /\ Len(smp) = CHAIN_LENGTH * BITS
              /\ \A pin \in 0 .. CHAIN_LENGTH * BITS - 1 :
                     GetResult(pin)' =
                         [res |-> "Ok", panic |-> FALSE,
                          val |-> smp[BITS * (pin \div BITS) + (MSB - (pin % BITS)) + 1]]]_vars

\* the second update of a two-chip DualChain read high at its last pulse
\* only, after a first update that had read high at one pulse
C13_Witness ==
    /\ variant = "dual" /\ CHAIN_LENGTH = 2 /\ updates = 2 /\ highs = 2
    /\ Samples(wire)[16] /\ data_in_buffer = [i \in 0 .. 1 |-> IF i = 1 THEN 1 ELSE 0]

\* w is: latch high; 8N times (clock low, sample data-in, drive data-out,
\* clock high); latch low, latch high, latch low
DualTraceShape(w) ==
    LET n == BITS * CHAIN_LENGTH
    IN  /\ Len(w) = 4 * n + 4
        /\ IsWrite(w[1], "latch", TRUE)
        /\ \A k \in 0 .. n - 1 :
               /\ IsWrite(w[4 * k + 2], "clock", FALSE)
               /\ w[4 * k + 3].line = "data_in"
               /\ w[4 * k + 4].line = "data_out"
               /\ IsWrite(w[4 * k + 5], "clock", TRUE)
        /\ IsWrite(w[4 * n + 2], "latch", FALSE)
        /\ IsWrite(w[4 * n + 3], "latch", TRUE)
        /\ IsWrite(w[4 * n + 4], "latch", FALSE)
        /\ Cardinality({i \in 1 .. Len(w) : IsWrite(w[i], "clock", TRUE)}) = n
        /\ Cardinality({i \in 1 .. Len(w) : IsWrite(w[i], "latch", TRUE)}) = 2

\* C14 as stated: the trace of DualChain.update() is latch high, 8N times
\* (clock low, sample, drive data-out, clock high), latch low, latch high,
\* latch low, and update() ends with clock high and latch low.
C14_DualTraceEndsClockHigh ==
    [][(variant = "dual" /\ UpdateStep)
       => /\ DualTraceShape(wire')
          /\ clock_pin' /\ ~latch_pin']_vars

\* C14: the trace of DualChain.update() is latch high, 8N times (clock low,
\* sample, drive data-out, clock high), latch low, latch high, latch low:
\* 8N clock pulses and two latch-high writes; update() ends with latch low,
\* and with clock high when N >= 1; for N = 0 it does not touch the clock.
C14_DualTrace ==
    [][(variant = "dual" /\ UpdateStep)
       => /\ DualTraceShape(wire')
          /\ ~latch_pin'
          /\ IF CHAIN_LENGTH >= 1 THEN clock_pin' ELSE clock_pin' = clock_pin]_vars

\* an empty DualChain was updated and the clock line is still low
C14_Witness ==
    /\ variant = "dual" /\ CHAIN_LENGTH = 0 /\ updates = 1
    /\ Len(wire) = 4 /\ ~clock_pin /\ ~latch_pin

\* C15: DualChain.update() drives the same data-out bit at every clock
\* rising edge as output::Chain::update run on the same output buffer, and
\* leaves the input buffer, hence get_input(pin) for every pin, as
\* input::Chain::update run with the same data-in level at each clock pulse.
C15_DualIsInputPlusOutput ==
    [][(variant = "dual" /\ UpdateStep)
       => \A smp \in {Samples(wire')} :
              LET hs == {k \in 0 .. Len(smp) - 1 : smp[k + 1]}
              IN  \A o \in {OutputUpdate(StartUpdate(hs, {}, TRUE))},
                     i \in {InputUpdate(StartUpdate(hs, {}, TRUE))} :
                      /\ Len(smp) = CHAIN_LENGTH * BITS
                      /\ Samples(i.wire) = smp
                      /\ DrivenBits(wire') = DrivenBits(o.wire)
                      /\ data_in_buffer' = i.data_in_buffer
                      /\ \A pin \in 0 .. CHAIN_LENGTH * BITS - 1 :
                             GetResult(pin)' = get_input(i.data_in_buffer, pin)]_vars

\* a two-chip DualChain with one output pin set was updated and read high
\* at one clock pulse
C15_Witness ==
    /\ variant = "dual" /\ CHAIN_LENGTH = 2 /\ updates = 1 /\ highs = 1
    /\ intent = {3} /\ data_in_buffer = [i \in 0 .. 1 |-> IF i = 1 THEN 4 ELSE 0]

\* C16: through a handle on pin p, set_high/set_low change the output
\* buffer exactly as set_output(p, true/false) does and no bit of another
\* pin, is_high returns what get_input(p) returns and is_low its negation;
\* the handles share the chain's buffer, so every pin's buffered state is
\* that of the most recent write through any handle on it.
C16_HandlesAreViews ==
    [][\A h \in handles :
           /\ \A state \in BOOLEAN :
                  (IF state THEN PinSetHighAt(h) ELSE PinSetLowAt(h))
                  => /\ set_output(data_out_buffer, h.pin, state).res = "Ok"
                     /\ data_out_buffer' = set_output(data_out_buffer, h.pin, state).buf
                     /\ OutState(data_out_buffer', h.pin) = state
                     /\ \A p \in 0 .. CHAIN_LENGTH * BITS - 1 :
                            p # h.pin => OutState(data_out_buffer', p)
                                         = OutState(data_out_buffer, p)
                     /\ \A p \in 0 .. CHAIN_LENGTH * BITS - 1 :
                            OutState(data_out_buffer', p) = (p \in intent')
                     /\ ret'.res = "Ok" /\ handles' = handles
           /\ PinIsHighAt(h)
                  => /\ get_input(data_in_buffer, h.pin).res = "Ok"
                     /\ ret'.val = get_input(data_in_buffer, h.pin).val
                     /\ ret'.res = "Ok" /\ handles' = handles
           /\ PinIsLowAt(h)
                  => /\ ret'.val = ~get_input(data_in_buffer, h.pin).val
                     /\ ret'.res = "Ok" /\ handles' = handles]_vars

\* two handles on pins 0 and 15 of one chain were each used to set their pin
\* high; both pins are buffered high
C16_Witness ==
    /\ HasOutput /\ CHAIN_LENGTH = 2 /\ calls = 4
    /\ handles = {[kind |-> "output", pin |-> 0], [kind |-> "output", pin |-> 15]}
    /\ ret.op = "set_high" /\ intent = {0, 15}
    /\ data_out_buffer = [i \in 0 .. 1 |-> IF i = 0 THEN 128 ELSE 1]

RECURSIVE PopCount(_)
\* the number of bits set in v
PopCount(v) == IF v = 0 THEN 0 ELSE (v % 2) + PopCount(v \div 2)

RECURSIVE BufferBits(_, _)
\* the number of bits set in bytes index .. of the buffer
BufferBits(buf, index) ==
    IF index \notin DOMAIN buf THEN 0
    ELSE PopCount(buf[index]) + BufferBits(buf, index + 1)

\* C17: after any sequence of set_output calls and update() calls the
\* buffered state of every pin is the state of the most recent set_output
\* for it (low if none), the buffer holds exactly one set bit per pin set
\* high, and a set_output call changes no bit but the one of its pin.
C17_OutputMappingStable ==
    [][HasOutput
       => /\ \A p \in 0 .. CHAIN_LENGTH * BITS - 1 :
                 OutState(data_out_buffer', p) = (p \in intent')
          /\ BufferBits(data_out_buffer', 0) = Cardinality(intent')
          /\ \A pin \in 0 .. CHAIN_LENGTH * BITS - 1, state \in BOOLEAN :
                 (SetOutputAt(pin, state) \/ SetOutputUncheckedAt(pin, state))
                 => /\ OutState(data_out_buffer', pin) = state
                    /\ \A p \in 0 .. CHAIN_LENGTH * BITS - 1 :
                           p # pin => OutState(data_out_buffer', p)
                                      = OutState(data_out_buffer, p)
                    /\ BufferBits(data_out_buffer', 0) - BufferBits(data_out_buffer, 0)
                           \in {-1, 0, 1}]_vars

\* pins 0 and 1, which share a buffer byte, were set high around an update()
C17_Witness ==
    /\ HasOutput /\ CHAIN_LENGTH = 2 /\ updates > 0 /\ calls = 2
    /\ ret.op = "set_output" /\ intent = {0, 1}
    /\ data_out_buffer = [i \in 0 .. 1 |-> IF i = 1 THEN 3 ELSE 0]
    /\ q = 1

\* C18: update() leaves the output buffer as it was (and an
\* OutputChain.update() the input buffer too); an update() that starts with
\* the outputs showing the buffer, as after an update() with no set_output
\* since, drives the same data-out bits as that update and leaves every
\* output as it is, also while it shifts.
C18_UpdateKeepsOutputBuffer ==
    [][(HasOutput /\ UpdateStep)
       => /\ data_out_buffer' = data_out_buffer
          /\ variant = "output" => data_in_buffer' = data_in_buffer
          /\ (updates > 0 /\ q = OutStates(data_out_buffer))
             => /\ DrivenBits(wire') = DrivenBits(wire)
                /\ q' = q
                /\ \A i \in 1 .. Len(wire') : wire'[i].q = q]_vars

\* a two-chip chain with pin 9 set high was updated twice
C18_Witness ==
    /\ HasOutput /\ CHAIN_LENGTH = 2 /\ updates = 2 /\ intent = {9}
    /\ q = 2 ^ 9 /\ data_out_buffer = [i \in 0 .. 1 |-> IF i = 0 THEN 2 ELSE 0]
    /\ gpio_ops = 2 * NumOps

\* the positions in w at which the data-out line is written
DataWrites(w) == {i \in 1 .. Len(w) : w[i].line = "data_out"}

\* C19: in update() of an OutputChain or DualChain every write of the
\* data-out line happens while the clock is low; there is exactly one such
\* write before the first clock rising edge and between any two consecutive
\* ones and none after the last, so at each of the 8N rising edges the line
\* holds the level of the write just before it.
C19_DataStableAtRisingEdge ==
    [][(HasOutput /\ UpdateStep)
       => \A edges \in {RisingEdges(wire')}, writes \in {DataWrites(wire')} :
              /\ Cardinality(edges) = CHAIN_LENGTH * BITS
              /\ Cardinality(writes) = CHAIN_LENGTH * BITS
              /\ \A i \in writes :
                     /\ ~wire'[i].clock
                     /\ \E e \in edges : i < e
              /\ \A e \in edges :
                     \E i \in writes :
                         /\ i < e
                         /\ \A j \in writes : j < e => (j <= i)
                         /\ \A f \in edges : f < e => f < i
                         /\ wire'[e].data_out = wire'[i].level]_vars

\* the first bit shifted out of a one-chip OutputChain, pin 7, was written
\* high with the clock low and clocked in
C19_Witness ==
    /\ variant = "output" /\ CHAIN_LENGTH = 1 /\ updates = 1 /\ intent = {7}
    /\ wire[3].line = "data_out" /\ wire[3].level /\ ~wire[3].clock
    /\ IsWrite(wire[4], "clock", TRUE) /\ wire[4].data_out

\* C20: a chain is constructed with all buffer bytes zero: until the first
\* update() get_input(pin) returns false for every valid pin, whatever the
\* data-in line does, and an update() of an OutputChain or DualChain on
\* which no accessor was called yet writes the data-out line low at all 8N
\* clock pulses, after which every output is low.
C20_FreshChainIsZero ==
    [][/\ (updates = 0 /\ HasInput)
          => \A pin \in 0 .. CHAIN_LENGTH * BITS - 1 :
                 GetResult(pin) = [res |-> "Ok", panic |-> FALSE, val |-> FALSE]
       /\ (updates = 0 /\ calls = 0)
          => /\ data_in_buffer = ZeroBuffer(CHAIN_LENGTH)
             /\ data_out_buffer = ZeroBuffer(CHAIN_LENGTH)
       /\ (HasOutput /\ UpdateStep /\ calls = 0)
          => /\ Len(DrivenBits(wire')) = CHAIN_LENGTH * BITS
             /\ \A k \in 1 .. CHAIN_LENGTH * BITS : ~DrivenBits(wire')[k]
             /\ \A i \in DataWrites(wire') : ~wire'[i].level
             /\ q' = 0]_vars

\* a fresh two-chip DualChain was updated before any accessor call
C20_Witness ==
    /\ variant = "dual" /\ CHAIN_LENGTH = 2 /\ calls = 0 /\ updates = 1
    /\ Len(wire) = NumOps /\ ~data_out_pin /\ q = 0
    /\ data_out_buffer = ZeroBuffer(2)

====
